---- MODULE Spec2Model ----
(***************************************************************************)
(* Model of the gacha-machine Solana program.                              *)
(*                                                                         *)
(* The repository holds the program twice: the monolithic crate root       *)
(* programs/gacha-machine/src/lib.rs, and the modular sources              *)
(* instructions/admin.rs + instructions/user.rs + contexts.rs.  The two    *)
(* differ in a few guards.  The variable `build` selects which of the two  *)
(* is running ("lib" or "mod"); it is chosen in Init and never changes.    *)
(*                                                                         *)
(* Every instruction is one atomic action: a Solana transaction commits    *)
(* or aborts as a whole.  For each instruction an operator *_error gives   *)
(* the error the code returns for a call, in the order of the code's       *)
(* checks ("Ok" when it succeeds); the runtime discards every write of a   *)
(* failed instruction, so the action is enabled only for the calls whose   *)
(* error is "Ok".                                                          *)
(***************************************************************************)
EXTENDS Integers, Sequences, FiniteSets, TLC

\* ------------------------------------------------------------------------
\* Bounds of the model
\* ------------------------------------------------------------------------
\* capacity of the key pool (MAX_KEYS is 500 in lib.rs, 90 in constants.rs)
MaxKeys == 2
\* number of slots the clock may advance
MaxAdvance == 1
\* capacity of the payment-config table
MaxPaymentConfigs == 2
\* fixed length of a stored key (KEY_LEN / MAX_KEY_LEN is 100 in constants.rs)
KeyLen == 2

\* capacity of the key pool where the payment configs are looked at
SingleKey == 1

\* ------------------------------------------------------------------------
\* Program constants
\* ------------------------------------------------------------------------
MAX_SLOT_DIFFERENCE == 20

\* slot of the clock when the pool is created
StartSlot == 10

Builds == {"lib", "mod"}
\* the pool the specifications of a single pool work with
Pools == {1}
\* the pools a factory may hold; a behaviour works with the pools of `pools`
FactoryPools == {1, 2}
Admin == "adm"
Users == {"u1", "u2"}
\* the requester of the pull with nonce n: the two users take turns
Requester(n) == IF n % 2 = 0 THEN "u1" ELSE "u2"
Signers == {Admin} \cup Users
\* the accounts transfer_admin is called with
NewAdmins == {Admin, "u1"}
\* the payment mints there are; a behaviour offers the mints of `mints`
Mints == {"SOL", "USDC", "BONK"}
\* the native-currency mint alone
NativeOnly == {"SOL"}
Prices == {5}
Treasury == "treasury"
\* the recipient accounts and the payer balances a pull is called with
Recipients == {Treasury, "other"}
Balances == {0, 5}
RandAccounts == {1}
\* resolved 64-bit values offered by the oracle
RandValues == {2, 7}
\* the value of a randomness account the oracle has not revealed yet
Pending == -1
\* the commitment slots the oracle may hold, relative to the clock
SeedOffsets == {0, 2}

\* reward keys as the admin uploads them, in order (byte strings)
KeyA == <<65>>
\* the second key is longer than the fixed key length
KeyB == <<66, 66, 66, 66>>
KeyC == <<67>>
KeyList == <<KeyA, KeyB, KeyC>>
\* the values offered to add_key when n keys are stored: the empty key and
\* the next key of the list
KeyInputs(n) == {<<>>, KeyList[(n % Len(KeyList)) + 1]}
\* the values release_decryption_key is called with: empty, two keys that
\* fit, and one longer than the fixed key length
DecryptionKeys == {<<>>, <<68>>, <<69>>, <<70, 70, 70, 70>>}

Nonces == 0..(MaxKeys + 2)
NoAccount == [exists |-> FALSE]

VARIABLES build, history, mints, pools, slot, gacha, configs, player, rand, ledger

vars == <<build, history, mints, pools, slot, gacha, configs, player, rand, ledger>>

\* ------------------------------------------------------------------------
\* Helpers
\* ------------------------------------------------------------------------
Range(q) == {q[i] : i \in 1..Len(q)}

Contains(q, x) == x \in Range(q)

\* Vec::position / Iterator::find: 1-based position of the first x in q, 0 if none
Position(q, x) ==
    IF x \in Range(q) THEN CHOOSE i \in 1..Len(q) : q[i] = x /\ \A j \in 1..(i - 1) : q[j] # x
    ELSE 0

\* Vec::remove(index): the later elements shift left
RemoveAt(q, i) == SubSeq(q, 1, i - 1) \o SubSeq(q, i + 1, Len(q))

\* faulty variant: the last element is dropped, whatever the index
swap_remove_pops_last(q, i) == SubSeq(q, 1, Len(q) - 1)

\* faulty variant: the last element is copied over the removed one, the length stays
swap_remove_keeps_length(q, i) == [q EXCEPT ![i + 1] = q[Len(q)]]

\* Vec::swap_remove(index) with a 0-based index: the last element takes the
\* place of the removed one and the length shrinks by one
swap_remove(q, i) ==
    [j \in 1..(Len(q) - 1) |-> IF j = i + 1 THEN q[Len(q)] ELSE q[j]]

\* (0..total_keys).collect()
IndexRange(n) == [i \in 1..n |-> i - 1]

\* ------------------------------------------------------------------------
\* Accounts
\* ------------------------------------------------------------------------
\* PDA of a PlayerState: seeds [player_state, user, pull_count] in lib.rs and
\* [PLAYER_STATE, GACHA_STATE, user, pull_count] in contexts.rs
PlayerPda(u, n) == <<u, n>>

\* the PlayerState addresses a pull can create
PlayerKeys == {PlayerPda(Requester(n), n) : n \in Nonces}

\* GachaState after initialize
InitGacha ==
    [admin |-> Admin,
     is_finalized |-> FALSE,
     is_paused |-> FALSE,
     is_halted |-> FALSE,
     pull_count |-> 0,
     settle_count |-> 0,
     encrypted_keys |-> <<>>,
     remaining_indices |-> <<>>,
     payment_configs |-> <<>>,
     decryption_key |-> [i \in 1..KeyLen |-> 0]]

\* PaymentConfig accounts that exist, by (pool, mint)
ConfigKeys == FactoryPools \X Mints

\* the accounts after initialize; `history` says whether a pull also notes,
\* beside the account's fields, the seed slot it read
Accounts ==
    /\ build \in Builds
    /\ slot = StartSlot
    /\ gacha = [g \in FactoryPools |-> InitGacha]
    /\ player = [k \in PlayerKeys |-> NoAccount]
    /\ rand = [ra \in RandAccounts |-> [seed_slot |-> StartSlot, value |-> Pending]]
    /\ configs = [c \in ConfigKeys |-> NoAccount]
    /\ ledger = [payments |-> 0, volume |-> 0]

Init == Accounts /\ history = FALSE /\ mints = NativeOnly /\ pools = Pools

InitHistory == Accounts /\ history = TRUE /\ mints = NativeOnly /\ pools = Pools

\* the accounts after initialize, where every mint is on offer
InitConfigs == Accounts /\ history = FALSE /\ mints = Mints /\ pools = Pools

\* the accounts after the factory has created two pools.  lib.rs has one
\* pool only: its gacha_state is the PDA of the seed "gacha_state" alone
InitPools ==
    /\ Accounts
    /\ history = FALSE
    /\ mints = NativeOnly
    /\ pools = IF build = "lib" THEN Pools ELSE FactoryPools

\* seed slots the randomness account may hold when the pool is created: one
\* committed MAX_SLOT_DIFFERENCE slots ago, and one of the slot to come
InitialSeeds == {StartSlot - MAX_SLOT_DIFFERENCE, StartSlot + 1}

\* the accounts after initialize, beside a randomness account committed
\* long before or for a slot to come
InitFreshness ==
    /\ build \in Builds
    /\ history = FALSE
    /\ mints = NativeOnly
    /\ pools = Pools
    /\ slot = StartSlot
    /\ gacha = [g \in FactoryPools |-> InitGacha]
    /\ player = [k \in PlayerKeys |-> NoAccount]
    /\ \E s \in InitialSeeds :
         rand = [ra \in RandAccounts |-> [seed_slot |-> s, value |-> Pending]]
    /\ configs = [c \in ConfigKeys |-> NoAccount]
    /\ ledger = [payments |-> 0, volume |-> 0]

\* ------------------------------------------------------------------------
\* Environment: the clock and the randomness oracle
\* ------------------------------------------------------------------------
Tick ==
    /\ slot < StartSlot + MaxAdvance
    /\ slot' = slot + 1
    /\ UNCHANGED <<build, history, mints, pools, gacha, configs, player, rand, ledger>>

\* the oracle account is committed for a seed slot; its value is not yet revealed
RandCommit ==
    \E ra \in RandAccounts, off \in SeedOffsets :
        /\ rand' = [rand EXCEPT ![ra] = [seed_slot |-> slot - off, value |-> Pending]]
        /\ rand'[ra] # rand[ra]
        /\ UNCHANGED <<build, history, mints, pools, slot, gacha, configs, player, ledger>>

\* the oracle reveals the value of the current commitment
RandReveal ==
    \E ra \in RandAccounts, v \in RandValues :
        /\ rand[ra].value = Pending
        /\ rand' = [rand EXCEPT ![ra].value = v]
        /\ UNCHANGED <<build, history, mints, pools, slot, gacha, configs, player, ledger>>

\* MAX_KEYS as the model scales it; the specification that records the seed
\* slots has room for one key more, for the pool of three keys, and the one
\* with every mint on offer and the one with two pools have pools of a single key
KeyCapacity ==
    IF history THEN MaxKeys + 1
    ELSE IF mints = Mints \/ pools = FactoryPools THEN SingleKey
    ELSE MaxKeys

\* ------------------------------------------------------------------------
\* Admin instructions
\* ------------------------------------------------------------------------
\* has_one = admin on gacha_state (lib.rs)
AdminAuthLib(g, caller) == caller = gacha[g].admin

\* has_one = admin on gacha_factory, whose admin is set once at creation
\* (contexts.rs); the pool is tied to the factory by has_one = gacha_factory
AdminAuthMod(g, caller) == caller = Admin

AdminAuth(g, caller) ==
    IF build = "lib" THEN AdminAuthLib(g, caller) ELSE AdminAuthMod(g, caller)

\* the successful outcome of an instruction that writes only the pool
Commit(g, newGacha) ==
    /\ gacha' = [gacha EXCEPT ![g] = newGacha]
    /\ UNCHANGED <<build, history, mints, pools, slot, configs, player, rand, ledger>>

\* string_to_fixed_bytes / the copy in add_key: zero padded, cut at KEY_LEN
FixedBytes(key) ==
    [i \in 1..KeyLen |-> IF i <= Len(key) THEN key[i] ELSE 0]

\* bytes_to_string: the bytes up to the last one that is not zero
bytes_to_string(input) ==
    LET nonzero == {i \in 1..Len(input) : input[i] # 0}
        trimmed_len == IF nonzero = {} THEN 0
                       ELSE CHOOSE i \in nonzero : \A j \in nonzero : j <= i
    IN SubSeq(input, 1, trimmed_len)

\* the key as add_key stores it
StoredKeyLib(key) == key

StoredKeyMod(key) == FixedBytes(key)

StoredKey(key) == IF build = "lib" THEN StoredKeyLib(key) ELSE StoredKeyMod(key)

add_key_error_lib(g, caller, key) ==
    IF ~AdminAuthLib(g, caller) THEN "ConstraintHasOne"
    ELSE IF ~(Len(gacha[g].encrypted_keys) < KeyCapacity) THEN "KeyPoolFull"
    ELSE IF gacha[g].is_finalized THEN "GachaAlreadyFinalized"
    ELSE IF Len(key) = 0 THEN "EmptyKeyProvided"
    ELSE IF ~(Len(gacha[g].encrypted_keys) < KeyCapacity) THEN "KeyPoolFull"
    ELSE "Ok"

add_key_error_mod(g, caller, key) ==
    IF ~AdminAuthMod(g, caller) THEN "ConstraintHasOne"
    ELSE IF gacha[g].is_finalized THEN "GachaAlreadyFinalized"
    ELSE IF Len(key) = 0 THEN "EmptyKeyProvided"
    ELSE IF ~(Len(gacha[g].encrypted_keys) < KeyCapacity) THEN "KeyPoolFull"
    ELSE "Ok"

\* faulty variant: the empty key is not refused
add_key_error_accepts_empty(g, caller, key) ==
    IF ~AdminAuth(g, caller) THEN "ConstraintHasOne"
    ELSE IF gacha[g].is_finalized THEN "GachaAlreadyFinalized"
    ELSE IF ~(Len(gacha[g].encrypted_keys) < KeyCapacity) THEN "KeyPoolFull"
    ELSE "Ok"

\* faulty variant: the finalized flag is not looked at
add_key_error_after_finalize(g, caller, key) ==
    IF ~AdminAuth(g, caller) THEN "ConstraintHasOne"
    ELSE IF Len(key) = 0 THEN "EmptyKeyProvided"
    ELSE IF ~(Len(gacha[g].encrypted_keys) < KeyCapacity) THEN "KeyPoolFull"
    ELSE "Ok"

add_key_error(g, caller, key) ==
    IF build = "lib" THEN add_key_error_lib(g, caller, key)
    ELSE add_key_error_mod(g, caller, key)

\* total_keys of the KeyAdded event. lib.rs: encrypted_keys.len() of the
\* vector after the push
key_added_total_keys_lib(g) == Len(gacha[g].encrypted_keys) + 1

\* admin.rs: encrypted_keys.len() of the fixed array of MAX_KEYS slots
key_added_total_keys_mod(g) == KeyCapacity

key_added_total_keys(g) ==
    IF build = "lib" THEN key_added_total_keys_lib(g) ELSE key_added_total_keys_mod(g)

add_key ==
    \E g \in pools, caller \in Signers :
      \E key \in KeyInputs(Len(gacha[g].encrypted_keys)) :
        LET err == add_key_error(g, caller, key) IN
        /\ err = "Ok"
        /\ Commit(g, [gacha[g] EXCEPT !.encrypted_keys = Append(@, StoredKey(key))])

finalize_error_lib(g, caller) ==
    IF ~AdminAuthLib(g, caller) THEN "ConstraintHasOne"
    ELSE IF gacha[g].is_finalized THEN "GachaAlreadyFinalized"
    ELSE IF Len(gacha[g].encrypted_keys) = 0 THEN "NoKeysInPool"
    ELSE "Ok"

finalize_error_mod(g, caller) ==
    IF ~AdminAuthMod(g, caller) THEN "ConstraintHasOne"
    ELSE IF gacha[g].is_finalized THEN "GachaAlreadyFinalized"
    ELSE "Ok"

\* faulty variant: a finalized pool can be finalized again
finalize_error_repeatable(g, caller) ==
    IF ~AdminAuth(g, caller) THEN "ConstraintHasOne" ELSE "Ok"

finalize_error(g, caller) ==
    IF build = "lib" THEN finalize_error_lib(g, caller) ELSE finalize_error_mod(g, caller)

\* faulty variant: the indices start at 1
finalize_remaining_from_one(keys_count) == [i \in 1..keys_count |-> i]

\* the working set finalize builds from the number of keys
finalize_remaining(keys_count) == IndexRange(keys_count)

finalize ==
    \E g \in pools, caller \in Signers :
        LET err == finalize_error(g, caller) IN
        /\ err = "Ok"
        /\ Commit(g, [gacha[g] EXCEPT
                        !.remaining_indices = finalize_remaining(Len(gacha[g].encrypted_keys)),
                        !.is_finalized = TRUE])

set_paused ==
    \E g \in pools, caller \in Signers, paused \in BOOLEAN :
        /\ AdminAuth(g, caller)
        /\ Commit(g, [gacha[g] EXCEPT !.is_paused = paused])

set_halted ==
    \E g \in pools, caller \in Signers, halted \in BOOLEAN :
        /\ AdminAuth(g, caller)
        /\ Commit(g, [gacha[g] EXCEPT !.is_halted = halted])

transfer_admin ==
    \E g \in pools, caller \in Signers, new_admin \in NewAdmins :
        /\ AdminAuth(g, caller)
        /\ Commit(g, [gacha[g] EXCEPT !.admin = new_admin])

\* lib.rs has no release_decryption_key: the program rejects the instruction
release_decryption_key_error_lib(g, caller, decryption_key) ==
    "InstructionFallbackNotFound"

\* admin.rs: encrypted_keys is the fixed array of MAX_KEYS slots, so
\* encrypted_keys.len() is the capacity, whatever the number of keys added
release_decryption_key_error_mod(g, caller, decryption_key) ==
    IF ~AdminAuthMod(g, caller) THEN "ConstraintHasOne"
    ELSE IF gacha[g].settle_count # KeyCapacity THEN "GachaNotComplete"
    ELSE IF ~(Len(decryption_key) > 0 /\ Len(decryption_key) <= KeyLen) THEN "KeyTooLong"
    ELSE "Ok"

release_decryption_key_error(g, caller, decryption_key) ==
    IF build = "lib" THEN release_decryption_key_error_lib(g, caller, decryption_key)
    ELSE release_decryption_key_error_mod(g, caller, decryption_key)

release_decryption_key ==
    \E g \in pools, caller \in Signers, decryption_key \in DecryptionKeys :
        /\ release_decryption_key_error(g, caller, decryption_key) = "Ok"
        /\ Commit(g, [gacha[g] EXCEPT !.decryption_key = FixedBytes(decryption_key)])

\* ------------------------------------------------------------------------
\* Payment configurations
\* ------------------------------------------------------------------------
add_payment_config_error_lib(g, caller, mint) ==
    IF configs[<<g, mint>>].exists THEN "AccountAlreadyInUse"
    ELSE IF ~AdminAuthLib(g, caller) THEN "ConstraintHasOne"
    ELSE "Ok"

\* faulty variant: the table is not checked for room
add_payment_config_error_mod_unbounded(g, caller, mint) ==
    IF ~AdminAuthMod(g, caller) THEN "ConstraintHasOne"
    ELSE IF configs[<<g, mint>>].exists THEN "AccountAlreadyInUse"
    ELSE IF Contains(gacha[g].payment_configs, mint) THEN "InvalidPaymentConfig"
    ELSE "Ok"

add_payment_config_error_mod(g, caller, mint) ==
    IF ~AdminAuthMod(g, caller) THEN "ConstraintHasOne"
    ELSE IF configs[<<g, mint>>].exists THEN "AccountAlreadyInUse"
    ELSE IF ~(Len(gacha[g].payment_configs) < MaxPaymentConfigs) THEN "KeyPoolFull"
    ELSE IF Contains(gacha[g].payment_configs, mint) THEN "InvalidPaymentConfig"
    ELSE "Ok"

add_payment_config_error(g, caller, mint) ==
    IF build = "lib" THEN add_payment_config_error_lib(g, caller, mint)
    ELSE add_payment_config_error_mod(g, caller, mint)

add_payment_config ==
    \E g \in pools, caller \in Signers, payment_mint \in mints,
       payment_price \in Prices, payment_recipient_account \in {Treasury} :
        LET err == add_payment_config_error(g, caller, payment_mint) IN
        /\ err = "Ok"
        /\ /\ configs' = [configs EXCEPT ![<<g, payment_mint>>] =
                                [exists |-> TRUE,
                                 gacha_state |-> g,
                                 mint |-> payment_mint,
                                 price |-> payment_price,
                                 admin_recipient_account |-> payment_recipient_account]]
             /\ gacha' = [gacha EXCEPT ![g].payment_configs = Append(@, payment_mint)]
             /\ UNCHANGED <<build, history, mints, pools, slot, player, rand, ledger>>

\* lib.rs: Vec::remove at the found position
remove_config_lib(q, mint) == RemoveAt(q, Position(q, mint))

\* faulty variant: the last occupied slot is cleared, whichever slot was found
remove_config_mod_drops_last(q, mint) == SubSeq(q, 1, Len(q) - 1)

\* admin.rs: the last occupied slot moves into the freed one
remove_config_mod(q, mint) == swap_remove(q, Position(q, mint) - 1)

remove_config(q, mint) ==
    IF build = "lib" THEN remove_config_lib(q, mint) ELSE remove_config_mod(q, mint)

\* faulty variant: the PaymentConfig account is left open
close_config_keeps_account(g, mint) == configs

\* close = admin on the PaymentConfig account
close_config(g, mint) == [configs EXCEPT ![<<g, mint>>] = NoAccount]

remove_payment_config_error(g, caller, mint) ==
    IF ~configs[<<g, mint>>].exists THEN "AccountNotInitialized"
    ELSE IF ~AdminAuth(g, caller) THEN
        (IF build = "lib" THEN "IncorrectOwner" ELSE "ConstraintHasOne")
    ELSE IF Position(gacha[g].payment_configs, mint) = 0 THEN "InvalidPaymentConfig"
    ELSE "Ok"

remove_payment_config ==
    \E g \in pools, caller \in Signers, payment_mint \in mints :
        LET err == remove_payment_config_error(g, caller, payment_mint) IN
        /\ err = "Ok"
        /\ /\ configs' = close_config(g, payment_mint)
             /\ gacha' = [gacha EXCEPT
                            ![g].payment_configs = remove_config(@, payment_mint)]
             /\ UNCHANGED <<build, history, mints, pools, slot, player, rand, ledger>>

\* ------------------------------------------------------------------------
\* User instructions: pull
\* ------------------------------------------------------------------------
\* lib.rs: pull_count <= encrypted_keys.len()
pull_has_keys_lib(g) == gacha[g].pull_count <= Len(gacha[g].encrypted_keys)

\* user.rs: pull_count < encrypted_keys.len()
pull_has_keys_mod(g) == gacha[g].pull_count < Len(gacha[g].encrypted_keys)

pull_has_keys(g) == IF build = "lib" THEN pull_has_keys_lib(g) ELSE pull_has_keys_mod(g)

\* faulty variant: a commitment of exactly MAX_SLOT_DIFFERENCE slots ago is
\* taken for stale
randomness_current_strict(seed_slot) ==
    slot >= seed_slot /\ slot - seed_slot < MAX_SLOT_DIFFERENCE

\* the randomness account is current: committed at or before this slot and
\* no more than MAX_SLOT_DIFFERENCE slots ago
randomness_current(seed_slot) ==
    slot >= seed_slot /\ slot - seed_slot <= MAX_SLOT_DIFFERENCE

\* process_sol_payment / process_spl_payment: the checks before the transfer
\* faulty variant: the recipient is not compared with the configured one
payment_error_any_recipient(cfg, recipient, balance) ==
    IF ~(balance >= cfg.price) THEN "InsufficientFunds"
    ELSE "Ok"

payment_error(cfg, recipient, balance) ==
    IF recipient # cfg.admin_recipient_account THEN "AccountMismatch"
    ELSE IF ~(balance >= cfg.price) THEN "InsufficientFunds"
    ELSE "Ok"

\* faulty variant: the paused flag is not looked at
not_paused_unchecked(g) == TRUE

\* require!(!gacha_state.is_paused)
not_paused(g) == ~gacha[g].is_paused

\* faulty variant: the finalized flag is not looked at
pull_finalized_unchecked(g) == TRUE

\* require!(gacha_state.is_finalized) of pull
pull_finalized(g) == gacha[g].is_finalized

pull_error(g, user, mint, ra, recipient, balance) ==
    IF player[PlayerPda(user, gacha[g].pull_count)].exists THEN "AccountAlreadyInUse"
    ELSE IF ~configs[<<g, mint>>].exists THEN "AccountNotInitialized"
    ELSE IF ~not_paused(g) THEN "GachaPaused"
    ELSE IF ~pull_finalized(g) THEN "GachaNotFinalized"
    ELSE IF ~pull_has_keys(g) THEN "NotEnoughKeys"
    ELSE IF ~Contains(gacha[g].payment_configs, mint) THEN "InvalidPaymentConfig"
    ELSE IF ~randomness_current(rand[ra].seed_slot) THEN
        (IF build = "lib" THEN "RandomnessNotCurrent" ELSE "RandomnessNotReady")
    ELSE payment_error(configs[<<g, mint>>], recipient, balance)

\* faulty variant: the nonce is taken after the increment
new_player_state_nonce_after(g, user, mint, ra) ==
    [exists |-> TRUE,
     user |-> user,
     gacha_state |-> g,
     randomness_account |-> ra,
     payment_mint |-> mint,
     is_settled |-> FALSE,
     pull_slot |-> slot,
     nonce |-> gacha[g].pull_count + 1,
     result_index |-> 0,
     winning_encrypted_key |-> <<>>,
     sampled_seed_slot |-> IF history THEN <<rand[ra].seed_slot>> ELSE <<>>]

\* faulty variant: the request is created as settled
new_player_state_settled(g, user, mint, ra) ==
    [exists |-> TRUE,
     user |-> user,
     gacha_state |-> g,
     randomness_account |-> ra,
     payment_mint |-> mint,
     is_settled |-> TRUE,
     pull_slot |-> slot,
     nonce |-> gacha[g].pull_count,
     result_index |-> 0,
     winning_encrypted_key |-> <<>>,
     sampled_seed_slot |-> IF history THEN <<rand[ra].seed_slot>> ELSE <<>>]

\* the PlayerState a pull creates
new_player_state(g, user, mint, ra) ==
    [exists |-> TRUE,
     user |-> user,
     gacha_state |-> g,
     randomness_account |-> ra,
     payment_mint |-> mint,
     is_settled |-> FALSE,
     pull_slot |-> slot,
     nonce |-> gacha[g].pull_count,
     result_index |-> 0,
     winning_encrypted_key |-> <<>>,
     \* history, not a field of the account: the seed slot the randomness
     \* account held when the pull read it
     sampled_seed_slot |-> IF history THEN <<rand[ra].seed_slot>> ELSE <<>>]

pull ==
    \E g \in pools, mint \in mints, ra \in RandAccounts,
       recipient \in Recipients, balance \in Balances :
      \E user \in {Requester(gacha[g].pull_count)} :
        LET err == pull_error(g, user, mint, ra, recipient, balance) IN
        /\ err = "Ok"
        /\ /\ ledger' = [payments |-> ledger.payments + 1,
                           volume |-> ledger.volume + configs[<<g, mint>>].price]
             /\ player' = [player EXCEPT ![PlayerPda(user, gacha[g].pull_count)] =
                                new_player_state(g, user, mint, ra)]
             /\ gacha' = [gacha EXCEPT ![g].pull_count = @ + 1]
             /\ UNCHANGED <<build, history, mints, pools, slot, configs, rand>>

\* ------------------------------------------------------------------------
\* User instructions: settle
\* ------------------------------------------------------------------------
\* the constraints of the Settle accounts: the PlayerState exists, is the PDA
\* of (user, nonce), has_one = user, has_one = gacha_state, and the randomness
\* account is the one recorded at pull
\* faulty variant: the pool of the request is not compared with the pool
\* settled against
settle_accounts_error_any_pool(g, caller, k, ra) ==
    IF ~player[k].exists THEN "AccountNotInitialized"
    ELSE IF k # PlayerPda(caller, player[k].nonce) THEN "ConstraintSeeds"
    ELSE IF player[k].user # caller THEN "ConstraintHasOne"
    ELSE IF ra # player[k].randomness_account THEN
        (IF build = "lib" THEN "ConstraintAddress" ELSE "InvalidRandomnessPlayerAccount")
    ELSE "Ok"

settle_accounts_error(g, caller, k, ra) ==
    IF ~player[k].exists THEN "AccountNotInitialized"
    ELSE IF k # PlayerPda(caller, player[k].nonce) THEN "ConstraintSeeds"
    ELSE IF player[k].user # caller THEN "ConstraintHasOne"
    ELSE IF player[k].gacha_state # g THEN "ConstraintHasOne"
    ELSE IF ra # player[k].randomness_account THEN
        (IF build = "lib" THEN "ConstraintAddress" ELSE "InvalidRandomnessPlayerAccount")
    ELSE "Ok"

\* user.rs: the seed slot of the randomness account must equal the slot
\* recorded at pull; lib.rs has no such check
seed_slot_matches_lib(k, ra) == TRUE

seed_slot_matches_mod(k, ra) == rand[ra].seed_slot = player[k].pull_slot

seed_slot_matches(k, ra) ==
    IF build = "lib" THEN seed_slot_matches_lib(k, ra) ELSE seed_slot_matches_mod(k, ra)

\* faulty variant: the first live position is taken, whatever the value
selected_index_in_remaining_first(random_u64, remaining_count) == 0

\* random_u64 as usize % remaining_count
selected_index_in_remaining(random_u64, remaining_count) == random_u64 % remaining_count

\* the key index swap_remove returns
final_key_index(g, random_u64) ==
    gacha[g].remaining_indices[
        selected_index_in_remaining(random_u64, Len(gacha[g].remaining_indices)) + 1]

\* faulty variant: the settled flag is not looked at
not_settled_unchecked(k) == TRUE

\* faulty variant: the slot of the pull itself is accepted
slot_passed_or_same(k) == slot >= player[k].pull_slot

\* faulty variant: the halted flag is not looked at
not_halted_unchecked(g) == TRUE

\* require!(!gacha_state.is_halted)
not_halted(g) == ~gacha[g].is_halted

\* require!(!player_state.is_settled)
not_settled(k) == ~player[k].is_settled

\* require!(clock.slot > player_state.pull_slot)
slot_passed(k) == slot > player[k].pull_slot

settle_error(g, caller, k, ra) ==
    IF settle_accounts_error(g, caller, k, ra) # "Ok" THEN settle_accounts_error(g, caller, k, ra)
    ELSE IF ~not_settled(k) THEN "AlreadySettled"
    ELSE IF ~gacha[g].is_finalized THEN "GachaNotFinalized"
    ELSE IF ~not_halted(g) THEN "GachaHalted"
    ELSE IF ~slot_passed(k) THEN "SlotNotPassed"
    ELSE IF ~(Len(gacha[g].remaining_indices) > 0) THEN "GachaIsEmpty"
    ELSE IF ~seed_slot_matches(k, ra) THEN "RandomnessExpired"
    ELSE IF rand[ra].value = Pending THEN "RandomnessNotResolved"
    ELSE IF ~(final_key_index(g, rand[ra].value) < Len(gacha[g].encrypted_keys))
        THEN "IndexOutOfBounds"
    ELSE "Ok"

\* faulty variant: the settle counts as a pull as well
settled_gacha_counts_pull(g, i) ==
    [gacha[g] EXCEPT !.remaining_indices = swap_remove(@, i),
                     !.settle_count = @ + 1,
                     !.pull_count = @ + 1]

\* the pool after a settle that draws position i: swap_remove on the
\* remaining indices and settle_count += 1
settled_gacha(g, i) ==
    [gacha[g] EXCEPT !.remaining_indices = swap_remove(@, i),
                     !.settle_count = @ + 1]

settle ==
    \E g \in pools, caller \in Signers, k \in PlayerKeys, ra \in RandAccounts :
        LET err == settle_error(g, caller, k, ra) IN
        /\ err = "Ok"
        /\ LET remaining_count == Len(gacha[g].remaining_indices)
                 i == selected_index_in_remaining(rand[ra].value, remaining_count)
                 idx == final_key_index(g, rand[ra].value)
             IN /\ gacha' = [gacha EXCEPT ![g] = settled_gacha(g, i)]
                /\ player' = [player EXCEPT
                                ![k].is_settled = TRUE,
                                ![k].result_index = idx,
                                ![k].winning_encrypted_key = gacha[g].encrypted_keys[idx + 1]]
                /\ UNCHANGED <<build, history, mints, pools, slot, configs, rand, ledger>>

\* ------------------------------------------------------------------------
\* Specification
\* ------------------------------------------------------------------------
Next ==
    \/ Tick
    \/ RandCommit
    \/ RandReveal
    \/ add_payment_config
    \/ remove_payment_config
    \/ add_key
    \/ finalize
    \/ set_paused
    \/ set_halted
    \/ transfer_admin
    \/ release_decryption_key
    \/ pull
    \/ settle

Spec == Init /\ [][Next]_vars

\* the same program, with the seed slot read at pull kept as history
SpecHistory == InitHistory /\ [][Next]_vars

SpecFreshness == InitFreshness /\ [][Next]_vars

\* the same program, with every mint on offer
SpecConfigs == InitConfigs /\ [][Next]_vars

\* the same program, with two pools under the factory
SpecPools == InitPools /\ [][Next]_vars

\* the settle instruction on request k
SettleOf(k) ==
    settle /\ player[k].exists /\ ~player[k].is_settled /\ player'[k].is_settled

\* set_halted(false) on a halted pool
Unhalt(g) == set_halted /\ gacha[g].is_halted /\ ~gacha'[g].is_halted

\* the clock advances, the oracle reveals what was committed, a halted pool
\* is resumed, and a request that can be settled again and again is settled
Fairness ==
    /\ WF_vars(Tick)
    /\ WF_vars(RandReveal)
    /\ \A g \in Pools : WF_vars(Unhalt(g))
    /\ \A k \in PlayerKeys : SF_vars(SettleOf(k))

SpecLive == Init /\ [][Next]_vars /\ Fairness

\* ------------------------------------------------------------------------
\* Properties
\* ------------------------------------------------------------------------
Settled(k) == player[k].exists /\ player[k].is_settled

Unsettled(k) == player[k].exists /\ ~player[k].is_settled

\* the requests of pool g
RequestsOf(g) == {k \in PlayerKeys : player[k].exists /\ player[k].gacha_state = g}

\* a step that settles request k
Settles(k) == Unsettled(k) /\ player'[k].is_settled

\* a settle call that passes the account validation of the instruction
ValidSettleCall(g, caller, k, ra) == settle_accounts_error(g, caller, k, ra) = "Ok"

\* C1: no two settled requests of a pool hold the same reward index: no key
\* index is drawn twice
UniqueAllocation ==
    \A k1 \in PlayerKeys, k2 \in PlayerKeys :
        (k1 # k2 /\ Settled(k1) /\ Settled(k2)
            /\ player[k1].gacha_state = player[k2].gacha_state)
        => player[k1].result_index # player[k2].result_index

\* two requests of one pool are settled
UniqueAllocation_Witness ==
    \E g \in Pools : Cardinality({k \in RequestsOf(g) : Settled(k)}) = 2

\* C2: in a finalized pool the live remaining set has N - settle_count
\* elements; a step either settles (remaining shrinks by one, settle_count
\* grows by one) or leaves both as they are
RemainingCountStep ==
    \A g \in Pools :
        gacha[g].is_finalized =>
            \/ /\ gacha'[g].settle_count = gacha[g].settle_count + 1
               /\ Len(gacha'[g].remaining_indices) = Len(gacha[g].remaining_indices) - 1
               /\ \E k \in PlayerKeys : Settles(k)
            \/ /\ gacha'[g].settle_count = gacha[g].settle_count
               /\ gacha'[g].remaining_indices = gacha[g].remaining_indices
               /\ \A k \in PlayerKeys : ~Settles(k)

RemainingCount ==
    /\ [](\A g \in Pools :
            gacha[g].is_finalized =>
                Len(gacha[g].remaining_indices)
                    = Len(gacha[g].encrypted_keys) - gacha[g].settle_count)
    /\ [][RemainingCountStep]_vars

\* one of two keys is drawn
RemainingCount_Witness ==
    \E g \in Pools :
        /\ gacha[g].is_finalized
        /\ Len(gacha[g].encrypted_keys) = 2
        /\ gacha[g].settle_count = 1
        /\ Len(gacha[g].remaining_indices) = 1

\* C3: right after a successful finalize of a pool of N keys the remaining
\* set has N elements, pairwise distinct, and they are the indices 0..N-1
FinalizeStep ==
    \A g \in Pools :
        (~gacha[g].is_finalized /\ gacha'[g].is_finalized) =>
            LET N == Len(gacha[g].encrypted_keys)
                rem == gacha'[g].remaining_indices
            IN /\ Len(rem) = N
               /\ \A i \in 1..N, j \in 1..N : i # j => rem[i] # rem[j]
               /\ Range(rem) = 0..(N - 1)
               /\ gacha'[g].encrypted_keys = gacha[g].encrypted_keys

FinalizeRemaining == [][FinalizeStep]_vars

\* a pool of two keys is finalized and nothing is pulled yet
FinalizeRemaining_Witness ==
    \E g \in Pools :
        /\ gacha[g].is_finalized
        /\ Len(gacha[g].encrypted_keys) = 2
        /\ gacha[g].pull_count = 0
        /\ Len(gacha[g].remaining_indices) = 2

\* C4: a settle of an already settled request fails with AlreadySettled,
\* whatever the flags of the pool, the slot and the randomness account are,
\* and no step changes a settled request or removes an index without
\* settling a request that was not settled before
SettledIsFinalStep ==
    /\ \A k \in PlayerKeys : Settled(k) => player'[k] = player[k]
    /\ \A g \in Pools :
         (gacha[g].is_finalized
            /\ (gacha'[g].remaining_indices # gacha[g].remaining_indices
                \/ gacha'[g].settle_count # gacha[g].settle_count))
         => \E k \in PlayerKeys : Settles(k)

SettledIsFinal ==
    /\ [](\A g \in Pools, caller \in Signers, k \in PlayerKeys, ra \in RandAccounts :
            (ValidSettleCall(g, caller, k, ra) /\ player[k].is_settled)
            => settle_error(g, caller, k, ra) = "AlreadySettled")
    /\ [][SettledIsFinalStep]_vars

\* a settled request, in a halted and paused pool, while the randomness
\* account is committed anew and not revealed
SettledIsFinal_Witness ==
    \E g \in Pools, k \in PlayerKeys :
        /\ Settled(k)
        /\ player[k].gacha_state = g
        /\ gacha[g].is_halted
        /\ gacha[g].is_paused
        /\ rand[player[k].randomness_account].value = Pending
        /\ Len(gacha[g].remaining_indices) > 0

\* C5 (as stated): a settle in the slot of its pull fails with SlotNotPassed,
\* and every request is settled in a slot after the slot recorded at its pull
SettleSameSlotNotPassed ==
    /\ [](\A g \in Pools, caller \in Signers, k \in PlayerKeys, ra \in RandAccounts :
            (ValidSettleCall(g, caller, k, ra) /\ slot = player[k].pull_slot)
            => settle_error(g, caller, k, ra) = "SlotNotPassed")
    /\ [][\A k \in PlayerKeys : Settles(k) => slot > player[k].pull_slot]_vars

\* C5: a settle in the slot of its pull fails, with SlotNotPassed when the
\* pool is not halted and with GachaHalted when it is, and every request is
\* settled in a slot after the slot recorded at its pull
SettleNeedsLaterSlot ==
    /\ [](\A g \in Pools, caller \in Signers, k \in PlayerKeys, ra \in RandAccounts :
            (ValidSettleCall(g, caller, k, ra) /\ slot = player[k].pull_slot)
            => settle_error(g, caller, k, ra) =
                 (IF gacha[g].is_halted THEN "GachaHalted" ELSE "SlotNotPassed"))
    /\ [][\A k \in PlayerKeys : Settles(k) => slot > player[k].pull_slot]_vars

\* a request in the slot of its pull whose randomness is revealed already:
\* only the slot keeps the settle from succeeding
SettleNeedsLaterSlot_Witness ==
    \E g \in Pools, k \in PlayerKeys :
        /\ Unsettled(k)
        /\ slot = player[k].pull_slot
        /\ ~gacha[g].is_halted
        /\ rand[player[k].randomness_account].value # Pending
        /\ rand[player[k].randomness_account].seed_slot = player[k].pull_slot
        /\ settle_error(g, player[k].user, k, player[k].randomness_account) = "SlotNotPassed"

\* C9: the nonces of a pool are 0, 1, 2, ... in the order of the pulls: the
\* requests of a pool carry the nonces 0..pull_count-1, one each, and a step
\* that creates a request gives it the nonce pull_count and adds one to
\* pull_count
NoncesStep ==
    \A g \in Pools :
        \/ /\ gacha'[g].pull_count = gacha[g].pull_count
           /\ \A k \in PlayerKeys : player'[k].exists = player[k].exists
        \/ /\ gacha'[g].pull_count = gacha[g].pull_count + 1
           /\ \E k \in PlayerKeys :
                /\ ~player[k].exists
                /\ player'[k].exists
                /\ player'[k].nonce = gacha[g].pull_count
                /\ \A k2 \in PlayerKeys \ {k} : player'[k2] = player[k2]

NoncesInOrder ==
    /\ [](\A g \in Pools :
            /\ {player[k].nonce : k \in RequestsOf(g)} = 0..(gacha[g].pull_count - 1)
            /\ Cardinality(RequestsOf(g)) = gacha[g].pull_count)
    /\ [][NoncesStep]_vars

\* two pulls are made
NoncesInOrder_Witness ==
    \E g \in Pools : gacha[g].pull_count = 2 /\ Cardinality(RequestsOf(g)) = 2

\* C10: a pull succeeds only while pull_count is less than the number of keys
\* of the pool, pull_count never exceeds the number of keys, and a pull on a
\* pool whose pull_count equals its number of keys fails with NotEnoughKeys
PullWithinKeys ==
    \A g \in Pools :
        /\ gacha[g].pull_count <= Len(gacha[g].encrypted_keys)
        /\ \A mint \in Mints, ra \in RandAccounts,
              recipient \in Recipients, balance \in Balances :
             LET err == pull_error(g, Requester(gacha[g].pull_count), mint, ra,
                                   recipient, balance) IN
             /\ err = "Ok" => gacha[g].pull_count < Len(gacha[g].encrypted_keys)
             /\ (/\ gacha[g].is_finalized
                 /\ ~gacha[g].is_paused
                 /\ configs[<<g, mint>>].exists
                 /\ gacha[g].pull_count = Len(gacha[g].encrypted_keys))
                => err = "NotEnoughKeys"

\* the seed slot the randomness account of request k held at its pull
SampledSeedSlot(k) == player[k].sampled_seed_slot[1]

\* C8: a pull records in the new request the seed slot of the randomness
\* account it sampled, also when that slot is before the slot of the pull
PullRecordsCommitSlot ==
    \A k \in PlayerKeys :
        player[k].exists => player[k].pull_slot = SampledSeedSlot(k)

\* C6: a settle whose randomness account holds another seed slot than the
\* one sampled at the pull fails with RandomnessExpired, and no request is
\* settled against another seed slot than the one sampled at its pull
SettleRejectsOtherCommit ==
    /\ [](\A g \in Pools, caller \in Signers, k \in PlayerKeys, ra \in RandAccounts :
            (/\ ValidSettleCall(g, caller, k, ra)
             /\ Unsettled(k)
             /\ gacha[g].is_finalized
             /\ ~gacha[g].is_halted
             /\ slot > player[k].pull_slot
             /\ Len(gacha[g].remaining_indices) > 0
             /\ rand[ra].seed_slot # SampledSeedSlot(k))
            => settle_error(g, caller, k, ra) = "RandomnessExpired")
    /\ [][\A k \in PlayerKeys :
            Settles(k) =>
              rand[player[k].randomness_account].seed_slot = SampledSeedSlot(k)]_vars

\* the request of nonce 0 of the pool of three keys, pulled in slot 10
\* against the seed slot 8, in slot 11 with the value 7 revealed for seed
\* slot 8
EndToEndCase(g, k) ==
    /\ Len(gacha[g].encrypted_keys) = 3
    /\ gacha[g].is_finalized
    /\ ~gacha[g].is_halted
    /\ gacha[g].remaining_indices = <<0, 1, 2>>
    /\ Unsettled(k)
    /\ player[k].gacha_state = g
    /\ player[k].nonce = 0
    /\ player[k].pull_slot = 10
    /\ SampledSeedSlot(k) = 8
    /\ slot = 11
    /\ rand[player[k].randomness_account].seed_slot = 8
    /\ rand[player[k].randomness_account].value = 7

\* C7: three keys A, B, C; the pull of slot 10 against the seed slot 8 gets
\* the nonce 0; its settle in slot 11 with the value 7 succeeds, draws the
\* position 1, gives the key B of index 1 and leaves <<0, 2>>; a second
\* settle fails with AlreadySettled
EndToEnd ==
    /\ [](\A g \in Pools, k \in PlayerKeys :
            EndToEndCase(g, k) =>
              settle_error(g, player[k].user, k, player[k].randomness_account) = "Ok")
    /\ [][\A g \in Pools, k \in PlayerKeys :
            (EndToEndCase(g, k) /\ Settles(k)) =>
              /\ player'[k].result_index = 1
              /\ player'[k].winning_encrypted_key = gacha[g].encrypted_keys[2]
              /\ gacha'[g].remaining_indices = <<0, 2>>
              /\ settle_error(g, player[k].user, k, player[k].randomness_account)' =
                   "AlreadySettled"]_vars

\* a step that creates the request k
Creates(k) == ~player[k].exists /\ player'[k].exists

\* C11: a pull is rejected when the seed slot of the randomness account is
\* after the current slot or more than 20 slots before it, and then no
\* payment is made, no request is created and pull_count stays; the
\* freshness check passes for every difference from 0 to 20, 20 included
PullFreshnessStep ==
    \A g \in Pools :
        (\/ gacha'[g].pull_count # gacha[g].pull_count
         \/ ledger' # ledger
         \/ \E k \in PlayerKeys : Creates(k))
        => \E k \in PlayerKeys :
             /\ Creates(k)
             /\ LET S == rand[player'[k].randomness_account].seed_slot
                IN S <= slot /\ slot - S <= 20

PullFreshness ==
    /\ [](\A g \in Pools, mint \in Mints, ra \in RandAccounts,
             recipient \in Recipients, balance \in Balances :
            LET err == pull_error(g, Requester(gacha[g].pull_count), mint, ra,
                                  recipient, balance)
                S == rand[ra].seed_slot
            IN /\ (S > slot \/ slot - S > 20) => err # "Ok"
               /\ (0 <= slot - S /\ slot - S <= 20)
                    => err \notin {"RandomnessNotCurrent", "RandomnessNotReady"}
               /\ (/\ 0 <= slot - S /\ slot - S <= 20
                   /\ gacha[g].is_finalized
                   /\ ~gacha[g].is_paused
                   /\ gacha[g].pull_count < Len(gacha[g].encrypted_keys)
                   /\ configs[<<g, mint>>].exists
                   /\ recipient = configs[<<g, mint>>].admin_recipient_account
                   /\ balance >= configs[<<g, mint>>].price)
                    => err = "Ok")
    /\ [][PullFreshnessStep]_vars

\* a request pulled in this slot against a seed slot of exactly 20 slots ago
PullFreshness_Witness ==
    \E k \in PlayerKeys :
        /\ player[k].exists
        /\ player[k].pull_slot = slot
        /\ rand[player[k].randomness_account].seed_slot = slot - 20

\* a pull call that passes the account validation of the instruction: the
\* PlayerState of the next nonce is free and the PaymentConfig exists
ValidPullCall(g, user, mint) ==
    /\ ~player[PlayerPda(user, gacha[g].pull_count)].exists
    /\ configs[<<g, mint>>].exists

\* a step that changes the paused flag of pool g and nothing else
PausedFlips(g) ==
    /\ gacha'[g].is_paused # gacha[g].is_paused
    /\ gacha' = [gacha EXCEPT ![g].is_paused = ~@]

\* a step that changes the halted flag of pool g and nothing else
HaltedFlips(g) ==
    /\ gacha'[g].is_halted # gacha[g].is_halted
    /\ gacha' = [gacha EXCEPT ![g].is_halted = ~@]

\* C12: while a pool is paused every pull fails with GachaPaused and nothing
\* of the pool, the requests or the ledger is changed by a pull; the outcome
\* of every settle is the same with the flag set and with it cleared
PausedBlocksPullStep ==
    \A g \in Pools :
        /\ gacha[g].is_paused =>
             /\ gacha'[g].pull_count = gacha[g].pull_count
             /\ ledger' = ledger
             /\ \A k \in PlayerKeys : ~Creates(k)
        /\ PausedFlips(g) =>
             \A caller \in Signers, k \in PlayerKeys, ra \in RandAccounts :
                /\ settle_error(g, caller, k, ra)' = settle_error(g, caller, k, ra)
                /\ settle_error(g, caller, k, ra) = "Ok" =>
                     final_key_index(g, rand[ra].value)' = final_key_index(g, rand[ra].value)

PausedBlocksPull ==
    /\ [](\A g \in Pools, mint \in Mints, ra \in RandAccounts,
             recipient \in Recipients, balance \in Balances :
            LET user == Requester(gacha[g].pull_count) IN
            (ValidPullCall(g, user, mint) /\ gacha[g].is_paused)
            => pull_error(g, user, mint, ra, recipient, balance) = "GachaPaused")
    /\ [][PausedBlocksPullStep]_vars

\* a paused pool in which a pull has all it needs beside the flag, and a
\* request whose settle succeeds
PausedBlocksPull_Witness ==
    \E g \in Pools, k \in PlayerKeys, mint \in Mints :
        /\ gacha[g].is_paused
        /\ gacha[g].is_finalized
        /\ gacha[g].pull_count < Len(gacha[g].encrypted_keys)
        /\ configs[<<g, mint>>].exists
        /\ Unsettled(k)
        /\ randomness_current(rand[player[k].randomness_account].seed_slot)
        /\ settle_error(g, player[k].user, k, player[k].randomness_account) = "Ok"

\* C13: while a pool is halted every settle of a pending request fails with
\* GachaHalted, the request stays pending and remaining_indices and
\* settle_count stay; the outcome of every pull is the same with the flag
\* set and with it cleared
HaltedBlocksSettleStep ==
    \A g \in Pools :
        /\ gacha[g].is_halted =>
             /\ gacha'[g].settle_count = gacha[g].settle_count
             /\ gacha[g].is_finalized =>
                  gacha'[g].remaining_indices = gacha[g].remaining_indices
             /\ \A k \in RequestsOf(g) : player'[k] = player[k]
        /\ HaltedFlips(g) =>
             \A mint \in Mints, ra \in RandAccounts,
                recipient \in Recipients, balance \in Balances :
                pull_error(g, Requester(gacha[g].pull_count), mint, ra, recipient, balance)'
                    = pull_error(g, Requester(gacha[g].pull_count), mint, ra,
                                 recipient, balance)

HaltedBlocksSettle ==
    /\ [](\A g \in Pools, caller \in Signers, k \in PlayerKeys, ra \in RandAccounts :
            (ValidSettleCall(g, caller, k, ra) /\ Unsettled(k) /\ gacha[g].is_halted)
            => settle_error(g, caller, k, ra) = "GachaHalted")
    /\ [][HaltedBlocksSettleStep]_vars

\* a halted pool with a pending request whose settle has all it needs beside
\* the flag, and in which a pull succeeds
HaltedBlocksSettle_Witness ==
    \E g \in Pools, k \in PlayerKeys, mint \in Mints :
        /\ gacha[g].is_halted
        /\ Unsettled(k)
        /\ player[k].gacha_state = g
        /\ slot_passed(k)
        /\ seed_slot_matches(k, player[k].randomness_account)
        /\ rand[player[k].randomness_account].value # Pending
        /\ Len(gacha[g].remaining_indices) > 0
        /\ pull_error(g, Requester(gacha[g].pull_count), mint,
                      player[k].randomness_account, Treasury, 5) = "Ok"

\* C14: set_paused, set_halted and transfer_admin are open to a caller
\* exactly when it is the admin recorded in the pool, so that after a
\* transfer the new admin can act and the previous one cannot
AdminFollowsRecorded ==
    \A g \in Pools, caller \in Signers :
        AdminAuth(g, caller) <=> caller = gacha[g].admin

\* the value a stored key reads back as
ReadKey(stored) == IF build = "lib" THEN stored ELSE bytes_to_string(stored)

\* the i-th value passed to a successful add_key
AddedKey(i) == KeyList[((i - 1) % Len(KeyList)) + 1]

\* C15: add_key by the admin fails exactly when the pool is finalized, or the
\* key is longer than the maximum, or the pool holds MAX_KEYS keys (or the
\* key is empty, C17); a step that changes the keys appends one key
AddKeyFailsExactlyStep ==
    \A g \in Pools :
        gacha'[g].encrypted_keys # gacha[g].encrypted_keys =>
            /\ Len(gacha'[g].encrypted_keys) = Len(gacha[g].encrypted_keys) + 1
            /\ SubSeq(gacha'[g].encrypted_keys, 1, Len(gacha[g].encrypted_keys))
                 = gacha[g].encrypted_keys

AddKeyFailsExactly ==
    /\ [](\A g \in Pools, caller \in Signers :
            \A key \in KeyInputs(Len(gacha[g].encrypted_keys)) :
              AdminAuth(g, caller) =>
                (add_key_error(g, caller, key) # "Ok"
                 <=> \/ gacha[g].is_finalized
                     \/ Len(key) > KeyLen
                     \/ Len(key) = 0
                     \/ Len(gacha[g].encrypted_keys) = KeyCapacity))
    /\ [][AddKeyFailsExactlyStep]_vars

\* C16: add_key of a key longer than the maximum fails, and every stored key
\* reads back as the value that was passed to the add_key that appended it
StoredKeysAreInputs ==
    \A g \in Pools :
        /\ \A caller \in Signers, key \in KeyInputs(Len(gacha[g].encrypted_keys)) :
             Len(key) > KeyLen => add_key_error(g, caller, key) # "Ok"
        /\ \A i \in 1..Len(gacha[g].encrypted_keys) :
             ReadKey(gacha[g].encrypted_keys[i]) = AddedKey(i)

\* a step that changes the keys of pool g
KeysChange(g) == gacha'[g].encrypted_keys # gacha[g].encrypted_keys

\* C17 (as stated): add_key of the empty key by the admin on a pool that is
\* not finalized fails with EmptyKeyProvided
EmptyKeyProvidedAlways ==
    \A g \in Pools, caller \in Signers :
        (AdminAuth(g, caller) /\ ~gacha[g].is_finalized)
        => add_key_error(g, caller, <<>>) = "EmptyKeyProvided"

\* C17: add_key of the empty key by the admin on a pool that is not finalized
\* fails, with EmptyKeyProvided, or in lib.rs with KeyPoolFull when the pool
\* is full; no step stores an empty key
EmptyKeyFails ==
    /\ [](\A g \in Pools, caller \in Signers :
            (AdminAuth(g, caller) /\ ~gacha[g].is_finalized)
            => add_key_error(g, caller, <<>>) =
                 (IF build = "lib" /\ Len(gacha[g].encrypted_keys) = KeyCapacity
                  THEN "KeyPoolFull" ELSE "EmptyKeyProvided"))
    /\ [][\A g \in Pools :
            KeysChange(g) =>
              ReadKey(gacha'[g].encrypted_keys[Len(gacha'[g].encrypted_keys)]) # <<>>]_vars

\* a pool that is not finalized and not full, holding a key, where add_key of
\* the empty key returns EmptyKeyProvided
EmptyKeyFails_Witness ==
    \E g \in Pools, caller \in Signers :
        /\ ~gacha[g].is_finalized
        /\ Len(gacha[g].encrypted_keys) = 1
        /\ add_key_error(g, caller, <<>>) = "EmptyKeyProvided"

\* C18: finalize of a pool without keys fails with NoKeysInPool, and no
\* finalized pool is without keys
FinalizeNeedsKeys ==
    \A g \in Pools :
        /\ gacha[g].is_finalized => Len(gacha[g].encrypted_keys) > 0
        /\ \A caller \in Signers :
             (/\ AdminAuth(g, caller)
              /\ ~gacha[g].is_finalized
              /\ Len(gacha[g].encrypted_keys) = 0)
             => finalize_error(g, caller) = "NoKeysInPool"

\* C19: a finalized pool stays finalized, every later finalize by the admin
\* fails with GachaAlreadyFinalized, and no step of a finalized pool puts an
\* index back into remaining_indices or lowers a counter
FinalizeOneWayStep ==
    \A g \in Pools :
        gacha[g].is_finalized =>
            /\ gacha'[g].is_finalized
            /\ Range(gacha'[g].remaining_indices) \subseteq Range(gacha[g].remaining_indices)
            /\ Len(gacha'[g].remaining_indices) <= Len(gacha[g].remaining_indices)
            /\ gacha'[g].pull_count >= gacha[g].pull_count
            /\ gacha'[g].settle_count >= gacha[g].settle_count

FinalizeOneWay ==
    /\ [](\A g \in Pools, caller \in Signers :
            (AdminAuth(g, caller) /\ gacha[g].is_finalized)
            => finalize_error(g, caller) = "GachaAlreadyFinalized")
    /\ [][FinalizeOneWayStep]_vars

\* a finalized pool of which a key is drawn already
FinalizeOneWay_Witness ==
    \E g \in Pools, caller \in Signers :
        /\ gacha[g].is_finalized
        /\ gacha[g].settle_count > 0
        /\ Len(gacha[g].remaining_indices) > 0
        /\ finalize_error(g, caller) = "GachaAlreadyFinalized"

\* C20: before finalize a step leaves the keys or appends to them, and after
\* finalize no step changes them
KeysAppendOnlyStep ==
    \A g \in Pools :
        /\ Len(gacha'[g].encrypted_keys) >= Len(gacha[g].encrypted_keys)
        /\ SubSeq(gacha'[g].encrypted_keys, 1, Len(gacha[g].encrypted_keys))
             = gacha[g].encrypted_keys
        /\ gacha[g].is_finalized => gacha'[g].encrypted_keys = gacha[g].encrypted_keys

KeysAppendOnly == [][KeysAppendOnlyStep]_vars

\* a finalized pool that is not full, after a pull and a settle
KeysAppendOnly_Witness ==
    \E g \in Pools :
        /\ gacha[g].is_finalized
        /\ Len(gacha[g].encrypted_keys) < KeyCapacity
        /\ gacha[g].pull_count > 0
        /\ gacha[g].settle_count > 0

\* a decryption key is stored in pool g
Released(g) == bytes_to_string(gacha[g].decryption_key) # <<>>

\* a non-empty key of bounded length
BoundedKey(key) == Len(key) > 0 /\ Len(key) <= KeyLen

\* C21: release_decryption_key is accepted only when settle_count equals the
\* number of keys added, and then for every non-empty key of bounded length
\* (stated for the build that has the instruction, on a finalized pool of
\* which a key is drawn); with settle_count below the number of keys it fails,
\* and no step stores a key then
ReleaseAtFullDrainStep ==
    \A g \in Pools :
        gacha'[g].decryption_key # gacha[g].decryption_key
        => gacha[g].settle_count = Len(gacha[g].encrypted_keys)

ReleaseAtFullDrain ==
    /\ [](\A g \in Pools, caller \in Signers, key \in DecryptionKeys :
            LET err == release_decryption_key_error(g, caller, key)
                drained == gacha[g].settle_count = Len(gacha[g].encrypted_keys)
            IN /\ err = "Ok" => drained
               /\ (/\ build = "mod"
                   /\ AdminAuth(g, caller)
                   /\ gacha[g].is_finalized
                   /\ gacha[g].settle_count > 0
                   /\ drained
                   /\ BoundedKey(key)) => err = "Ok"
               /\ gacha[g].settle_count < Len(gacha[g].encrypted_keys) => err # "Ok")
    /\ [][ReleaseAtFullDrainStep]_vars

\* C22: the decryption key is stored once: a stored key never changes, and
\* a later release_decryption_key with another value does not overwrite it
DecryptionKeyStoredOnceStep ==
    \A g \in Pools :
        Released(g) => gacha'[g].decryption_key = gacha[g].decryption_key

DecryptionKeyStoredOnce == [][DecryptionKeyStoredOnceStep]_vars

\* C23: settle_count never exceeds pull_count, whatever the interleaving of
\* the pulls and settles of the requesters: pull_count counts the requests of
\* the pool and settle_count the settled ones
SettleWithinPulls ==
    \A g \in Pools :
        /\ gacha[g].settle_count <= gacha[g].pull_count
        /\ gacha[g].pull_count = Cardinality(RequestsOf(g))
        /\ gacha[g].settle_count = Cardinality({k \in RequestsOf(g) : Settled(k)})

\* the requests of both users are settled: settle_count has caught up
SettleWithinPulls_Witness ==
    \E g \in Pools :
        /\ gacha[g].pull_count = 2
        /\ gacha[g].settle_count = 2
        /\ \A u \in Users : \E k \in RequestsOf(g) : player[k].user = u

\* C24: every live element of remaining_indices is the index of an added
\* key, and no settle call returns IndexOutOfBounds
RemainingInBounds ==
    \A g \in Pools :
        /\ \A i \in 1..Len(gacha[g].remaining_indices) :
             /\ gacha[g].remaining_indices[i] >= 0
             /\ gacha[g].remaining_indices[i] < Len(gacha[g].encrypted_keys)
        /\ \A caller \in Signers, k \in PlayerKeys, ra \in RandAccounts :
             settle_error(g, caller, k, ra) # "IndexOutOfBounds"

\* the key of the highest index is drawn while another index is live
RemainingInBounds_Witness ==
    \E g \in Pools, k \in PlayerKeys :
        /\ Settled(k)
        /\ player[k].gacha_state = g
        /\ player[k].result_index = Len(gacha[g].encrypted_keys) - 1
        /\ Len(gacha[g].remaining_indices) > 0

\* C25: a request is created unsettled, by one pull that creates only it;
\* its settled flag only goes from false to true; result_index and
\* winning_encrypted_key are written by the settle that sets the flag and by
\* nothing else; a settled request is never changed, and no request is deleted
RequestLifecycleStep ==
    \A k \in PlayerKeys :
        /\ player[k].exists => player'[k].exists
        /\ Creates(k) =>
             /\ ~player'[k].is_settled
             /\ \A k2 \in PlayerKeys : k2 # k => player'[k2] = player[k2]
             /\ \E g \in Pools :
                  /\ player'[k].gacha_state = g
                  /\ player'[k].nonce = gacha[g].pull_count
                  /\ gacha'[g].pull_count = gacha[g].pull_count + 1
        /\ Settled(k) => player'[k] = player[k]
        /\ Unsettled(k) =>
             \/ player'[k] = player[k]
             \/ /\ Settles(k)
                /\ player'[k] = [player[k] EXCEPT
                                   !.is_settled = TRUE,
                                   !.result_index = player'[k].result_index,
                                   !.winning_encrypted_key = player'[k].winning_encrypted_key]
                /\ gacha'[player[k].gacha_state].settle_count
                     = gacha[player[k].gacha_state].settle_count + 1

RequestLifecycle == [][RequestLifecycleStep]_vars

\* one request is settled and holds its reward while another one is pending
RequestLifecycle_Witness ==
    \E k1 \in PlayerKeys, k2 \in PlayerKeys :
        /\ Settled(k1)
        /\ player[k1].winning_encrypted_key # <<>>
        /\ Unsettled(k2)

\* C26: a settle with the resolved value r on m > 0 live indices takes the
\* position i = r mod m, binds result_index to remaining[i] and the reward to
\* the key of that index, and leaves remaining with the old last live element
\* at position i, one element shorter and the same elsewhere; with m = 0 the
\* settle fails with GachaIsEmpty
DrawStep ==
    \A g \in Pools, k \in PlayerKeys :
        (Settles(k) /\ player[k].gacha_state = g) =>
            LET rem == gacha[g].remaining_indices
                m == Len(rem)
                r == rand[player[k].randomness_account].value
                i == r % m
            IN /\ m > 0
               /\ r # Pending
               /\ player'[k].result_index = rem[i + 1]
               /\ player'[k].winning_encrypted_key = gacha[g].encrypted_keys[rem[i + 1] + 1]
               /\ Len(gacha'[g].remaining_indices) = m - 1
               /\ \A j \in 1..(m - 1) :
                    gacha'[g].remaining_indices[j] = IF j = i + 1 THEN rem[m] ELSE rem[j]

ErrorsAtomicStep ==
    \A g \in Pools :
        LET paid == ledger' # ledger
            pulled == gacha'[g].pull_count # gacha[g].pull_count
            created == \E k \in PlayerKeys : Creates(k)
            drawn == /\ gacha[g].is_finalized
                     /\ gacha'[g].remaining_indices # gacha[g].remaining_indices
            settled == \E k \in PlayerKeys : Settles(k)
            counted == gacha'[g].settle_count # gacha[g].settle_count
        IN /\ paid <=> pulled
           /\ pulled <=> created
           /\ drawn <=> settled
           /\ settled <=> counted
           /\ player' # player => created \/ settled
           /\ \A k \in PlayerKeys :
                Creates(k) =>
                    LET mint == player'[k].payment_mint
                        ra == player'[k].randomness_account
                    IN /\ \E recipient \in Recipients, balance \in Balances :
                            pull_error(g, player'[k].user, mint, ra, recipient, balance) = "Ok"
                       /\ ~gacha[g].is_paused
                       /\ gacha[g].is_finalized
                       /\ configs[<<g, mint>>].exists
                       /\ Contains(gacha[g].payment_configs, mint)
                       /\ slot >= rand[ra].seed_slot
                       /\ slot - rand[ra].seed_slot <= MAX_SLOT_DIFFERENCE
                       /\ ledger' = [payments |-> ledger.payments + 1,
                                     volume |-> ledger.volume + configs[<<g, mint>>].price]
           /\ \A k \in PlayerKeys :
                Settles(k) =>
                    LET ra == player[k].randomness_account
                    IN /\ settle_error(g, player[k].user, k, ra) = "Ok"
                       /\ ~gacha[g].is_halted
                       /\ gacha[g].is_finalized
                       /\ slot > player[k].pull_slot
                       /\ Len(gacha[g].remaining_indices) > 0
                       /\ rand[ra].value # Pending
                       /\ ledger' = ledger

ErrorsAtomic == [][ErrorsAtomicStep]_vars

\* after a paid pull, a pull without funds and the settle of the pending
\* request both return an error
ErrorsAtomic_Witness ==
    \E g \in Pools, mint \in mints, ra \in RandAccounts, k \in PlayerKeys :
        /\ ledger.payments = 1
        /\ Unsettled(k)
        /\ player[k].randomness_account = ra
        /\ settle_error(g, player[k].user, k, ra) = "RandomnessNotResolved"
        /\ pull_error(g, Requester(gacha[g].pull_count), mint, ra, Treasury, 0)
             = "InsufficientFunds"

\* no element occurs twice in q
NoDuplicates(q) == \A i \in 1..Len(q), j \in 1..Len(q) : i # j => q[i] # q[j]

\* the mint is registered for pool g
Registered(g, mint) == Contains(gacha[g].payment_configs, mint)

ConfigTableStep ==
    \A g \in Pools :
        Len(gacha'[g].payment_configs) > Len(gacha[g].payment_configs) =>
            \E mint \in Mints :
                /\ ~Registered(g, mint)
                /\ gacha'[g].payment_configs = Append(gacha[g].payment_configs, mint)
                /\ configs'[<<g, mint>>].exists

RemovesConfig(g) == Len(gacha'[g].payment_configs) < Len(gacha[g].payment_configs)

\* C29 as stated: remove_payment_config fails when the mint is not
\* registered; a successful call removes that mint, lowers the count by one
\* and moves the last occupied slot into the freed one, the other slots
\* staying as they are
RemoveMovesLastStep ==
    \A g \in Pools :
        RemovesConfig(g) =>
            LET q == gacha[g].payment_configs
                n == Len(q)
            IN \E p \in 1..n :
                /\ Len(gacha'[g].payment_configs) = n - 1
                /\ \A j \in 1..(n - 1) :
                     gacha'[g].payment_configs[j] = IF j = p THEN q[n] ELSE q[j]

RemoveKeepsOthersStep ==
    \A g \in Pools :
        RemovesConfig(g) =>
            LET q == gacha[g].payment_configs
                n == Len(q)
                q2 == gacha'[g].payment_configs
            IN \E p \in 1..n :
                /\ Len(q2) = n - 1
                /\ Range(q2) = Range(q) \ {q[p]}
                /\ NoDuplicates(q2)
                /\ configs[<<g, q[p]>>].exists
                /\ ~configs'[<<g, q[p]>>].exists
                /\ \A mint \in Mints : mint # q[p] => configs'[<<g, mint>>] = configs[<<g, mint>>]
                /\ build = "mod" =>
                     \A j \in 1..(n - 1) : q2[j] = IF j = p THEN q[n] ELSE q[j]
                /\ build = "lib" =>
                     \A j \in 1..(n - 1) : q2[j] = IF j < p THEN q[j] ELSE q[j + 1]

PullGatesOpen(g, ra) ==
    /\ ~gacha[g].is_paused
    /\ gacha[g].is_finalized
    /\ pull_has_keys(g)
    /\ randomness_current(rand[ra].seed_slot)

\* C30 as stated: a pull with a mint that is not registered fails with
\* InvalidPaymentConfig
UnregisteredPullInvalidConfig ==
    \A g \in Pools, mint \in Mints, ra \in RandAccounts,
       recipient \in Recipients, balance \in Balances :
        (PullGatesOpen(g, ra) /\ ~Registered(g, mint))
        => pull_error(g, Requester(gacha[g].pull_count), mint, ra, recipient, balance)
             = "InvalidPaymentConfig"

\* C30: a pull with a mint that is not registered fails, whether the mint
\* was never added or was added and removed: its PaymentConfig account does
\* not exist and the account validation of Pull returns AccountNotInitialized
\* (InvalidPaymentConfig is never returned); no request is created and no
\* payment taken for such a mint, and a registered mint is accepted
UnregisteredPullFailsStep ==
    \A k \in PlayerKeys :
        Creates(k) =>
            /\ Registered(player'[k].gacha_state, player'[k].payment_mint)
            /\ ledger'.volume
                 = ledger.volume + configs[<<player'[k].gacha_state, player'[k].payment_mint>>].price

UnregisteredPullFails ==
    /\ [](\A g \in Pools, mint \in Mints, ra \in RandAccounts,
             recipient \in Recipients, balance \in Balances :
            LET err == pull_error(g, Requester(gacha[g].pull_count), mint, ra, recipient, balance)
            IN /\ ~Registered(g, mint) => err = "AccountNotInitialized"
               /\ err # "InvalidPaymentConfig"
               /\ (/\ Registered(g, mint)
                   /\ PullGatesOpen(g, ra)
                   /\ recipient = configs[<<g, mint>>].admin_recipient_account
                   /\ balance >= configs[<<g, mint>>].price) => err = "Ok")
    /\ [][UnregisteredPullFailsStep]_vars

\* a request was paid with a mint that is removed since: a pull with that
\* mint is refused now, and one with a mint still registered is accepted
UnregisteredPullFails_Witness ==
    \E g \in Pools, k \in PlayerKeys, mint \in Mints, ra \in RandAccounts :
        /\ player[k].exists
        /\ player[k].gacha_state = g
        /\ ~Registered(g, player[k].payment_mint)
        /\ pull_error(g, Requester(gacha[g].pull_count), player[k].payment_mint,
                      ra, Treasury, 5) = "AccountNotInitialized"
        /\ Registered(g, mint)
        /\ pull_error(g, Requester(gacha[g].pull_count), mint, ra, Treasury, 5) = "Ok"

\* the settle of request k by its requester, with the randomness account of
\* its pull, returns no error
Settleable(k) ==
    /\ Unsettled(k)
    /\ settle_error(player[k].gacha_state, player[k].user, k, player[k].randomness_account) = "Ok"

\* C31: the pending requests of a pool are never more than its live
\* remaining indices, so no settle of a pending request returns GachaIsEmpty
PendingWithinRemaining ==
    \A g \in Pools :
        /\ gacha[g].is_finalized =>
             gacha[g].pull_count - gacha[g].settle_count <= Len(gacha[g].remaining_indices)
        /\ \A caller \in Signers, k \in PlayerKeys, ra \in RandAccounts :
             (ValidSettleCall(g, caller, k, ra) /\ Unsettled(k))
             => settle_error(g, caller, k, ra) # "GachaIsEmpty"

\* C32: the reward of a pending request with a resolved value does not
\* depend on whether it is settled before or after another pending request:
\* the index it draws now is the index it draws once the other one is settled
SettleOrderIrrelevant ==
    \A g \in Pools, k1 \in PlayerKeys, k2 \in PlayerKeys :
        (/\ k1 # k2
         /\ Settleable(k1) /\ player[k1].gacha_state = g
         /\ Settleable(k2) /\ player[k2].gacha_state = g
         /\ Len(gacha[g].remaining_indices) >= 2)
        => LET rem == gacha[g].remaining_indices
               r1 == rand[player[k1].randomness_account].value
               r2 == rand[player[k2].randomness_account].value
               after2 == swap_remove(rem, selected_index_in_remaining(r2, Len(rem)))
           IN rem[selected_index_in_remaining(r1, Len(rem)) + 1]
                = after2[selected_index_in_remaining(r1, Len(after2)) + 1]

\* C33: pools are independent: a step changes the state of one pool at most,
\* and a pull on a pool that passes the gates of that pool, with a registered
\* mint, the recipient of its config and funds for its price, succeeds
\* whatever was pulled on the other pools: the requests of different pools
\* do not collide
PoolsIndependentStep ==
    \A g1 \in pools, g2 \in pools :
        (g1 # g2 /\ gacha'[g1] # gacha[g1]) => gacha'[g2] = gacha[g2]

PoolsIndependent ==
    /\ [](\A g \in pools, mint \in mints, ra \in RandAccounts :
            (/\ Registered(g, mint)
             /\ configs[<<g, mint>>].exists
             /\ PullGatesOpen(g, ra))
            => pull_error(g, Requester(gacha[g].pull_count), mint, ra,
                          configs[<<g, mint>>].admin_recipient_account,
                          configs[<<g, mint>>].price) = "Ok")
    /\ [][PoolsIndependentStep]_vars

\* C35: a settle succeeds only for the requester recorded in the request and
\* against the pool of the request; for another caller or another pool it
\* returns an error, and the step that settles a request takes the index from
\* the remaining indices of the pool of the request and leaves the other
\* pools as they are
SettleByRequesterStep ==
    \A k \in PlayerKeys :
        Settles(k) =>
            LET g == player[k].gacha_state
            IN /\ Len(gacha'[g].remaining_indices) = Len(gacha[g].remaining_indices) - 1
               /\ \A g2 \in FactoryPools : g2 # g => gacha'[g2] = gacha[g2]

SettleByRequester ==
    /\ [](\A g \in pools, caller \in Signers, k \in PlayerKeys, ra \in RandAccounts :
            (player[k].exists /\ (caller # player[k].user \/ g # player[k].gacha_state))
            => settle_error(g, caller, k, ra) \in {"ConstraintSeeds", "ConstraintHasOne"})
    /\ [][SettleByRequesterStep]_vars

\* the requester can settle a pending request, another signer cannot, and
\* the requester cannot settle it against another pool that has an index left
SettleByRequester_Witness ==
    \E k \in PlayerKeys, g2 \in pools, other \in Signers :
        /\ Settleable(k)
        /\ g2 # player[k].gacha_state
        /\ gacha[g2].is_finalized
        /\ ~gacha[g2].is_halted
        /\ Len(gacha[g2].remaining_indices) > 0
        /\ settle_error(g2, player[k].user, k, player[k].randomness_account) = "ConstraintHasOne"
        /\ other # player[k].user
        /\ settle_error(player[k].gacha_state, other, k, player[k].randomness_account)
             \in {"ConstraintSeeds", "ConstraintHasOne"}

\* C34: in a pool finalized with N keys, once N settles have succeeded the
\* remaining indices are empty, settle_count is N and the result indices of
\* the settled requests are exactly 0..N-1, one request each; and a pool that
\* has received N pulls (each before the last slot of the clock) reaches
\* that state, when the randomness resolves for good, requests are settled
\* as soon as they can be and the pool is not halted for ever
SettledOf(g) == {k \in RequestsOf(g) : player[k].is_settled}

Drained(g) ==
    /\ gacha[g].is_finalized
    /\ gacha[g].remaining_indices = <<>>
    /\ gacha[g].settle_count = Len(gacha[g].encrypted_keys)
    /\ Cardinality(SettledOf(g)) = Len(gacha[g].encrypted_keys)
    /\ {player[k].result_index : k \in SettledOf(g)} = 0..(Len(gacha[g].encrypted_keys) - 1)

AllocatedOnce ==
    \A g \in Pools :
        (gacha[g].is_finalized /\ gacha[g].settle_count = Len(gacha[g].encrypted_keys))
        => Drained(g)

FullyPulled(g) ==
    /\ gacha[g].is_finalized
    /\ gacha[g].pull_count >= Len(gacha[g].encrypted_keys)
    /\ \A k \in RequestsOf(g) : player[k].pull_slot < StartSlot + MaxAdvance

RandomnessResolved == \A ra \in RandAccounts : rand[ra].value # Pending

ExactlyOnceAtFullDrain ==
    /\ []AllocatedOnce
    /\ \A g \in Pools : (<>[]RandomnessResolved) => (FullyPulled(g) ~> Drained(g))

\* C36: set_paused and set_halted called by the admin recorded in the pool
\* succeed in every state of the pool; a step that flips is_paused changes
\* nothing but is_paused, a step that flips is_halted nothing but is_halted,
\* and the step that finalizes the pool leaves both flags as they are
TogglesFrameStep ==
    \A g \in Pools :
        /\ gacha'[g].is_paused # gacha[g].is_paused =>
             /\ gacha' = [gacha EXCEPT ![g].is_paused = ~gacha[g].is_paused]
             /\ UNCHANGED <<player, configs, ledger, rand, slot>>
        /\ gacha'[g].is_halted # gacha[g].is_halted =>
             /\ gacha' = [gacha EXCEPT ![g].is_halted = ~gacha[g].is_halted]
             /\ UNCHANGED <<player, configs, ledger, rand, slot>>
        /\ gacha'[g].is_finalized # gacha[g].is_finalized =>
             /\ gacha'[g].is_paused = gacha[g].is_paused
             /\ gacha'[g].is_halted = gacha[g].is_halted

AlwaysToggleable ==
    /\ [](\A g \in Pools, caller \in Signers \cup NewAdmins :
            caller = gacha[g].admin => AdminAuth(g, caller))
    /\ [][TogglesFrameStep]_vars

\* C37: the step of a pull adds one to pull_count of its pool, adds the
\* payment to the ledger and creates one request, and changes nothing else;
\* the step of a settle changes the remaining indices and adds one to
\* settle_count of the pool of the request, writes the result into that
\* request, and changes nothing else
PullSettleFrameStep ==
    \A k \in PlayerKeys :
        /\ Creates(k) =>
             LET g == player'[k].gacha_state
             IN /\ gacha' = [gacha EXCEPT ![g].pull_count = @ + 1]
                /\ \A k2 \in PlayerKeys \ {k} : player'[k2] = player[k2]
                /\ ledger'.payments = ledger.payments + 1
                /\ UNCHANGED <<configs, rand, slot>>
        /\ Settles(k) =>
             LET g == player[k].gacha_state
             IN /\ gacha' = [gacha EXCEPT
                               ![g].remaining_indices = gacha'[g].remaining_indices,
                               ![g].settle_count = @ + 1]
                /\ gacha'[g].remaining_indices # gacha[g].remaining_indices
                /\ player' = [player EXCEPT
                               ![k].is_settled = TRUE,
                               ![k].result_index = player'[k].result_index,
                               ![k].winning_encrypted_key = player'[k].winning_encrypted_key]
                /\ UNCHANGED <<configs, rand, slot, ledger>>

PullSettleFrame == [][PullSettleFrameStep]_vars

\* a paused and halted pool with a settled and a pending request
PullSettleFrame_Witness ==
    \E g \in Pools, k1 \in PlayerKeys, k2 \in PlayerKeys :
        /\ Settled(k1) /\ player[k1].gacha_state = g
        /\ Unsettled(k2) /\ player[k2].gacha_state = g
        /\ gacha[g].is_paused /\ gacha[g].is_halted
        /\ gacha[g].pull_count = 2 /\ gacha[g].settle_count = 1

\* C38: a pull succeeds only with the configured recipient and a balance
\* that covers the configured price; its step makes one payment of that
\* price, so that the payments made are as many as pull_count; a settle
\* makes no payment, and nothing but a pull does
OnePaymentPerPullStep ==
    /\ \A k \in PlayerKeys :
         /\ Creates(k) =>
              ledger' = [payments |-> ledger.payments + 1,
                         volume |-> ledger.volume
                            + configs[<<player'[k].gacha_state, player'[k].payment_mint>>].price]
         /\ Settles(k) => ledger' = ledger
    /\ ledger' # ledger => \E k \in PlayerKeys : Creates(k)

BuildingIsClosed ==
    \A g \in Pools :
        ~gacha[g].is_finalized =>
            /\ gacha[g].pull_count = 0
            /\ gacha[g].settle_count = 0
            /\ RequestsOf(g) = {}
            /\ \A mint \in Mints, ra \in RandAccounts,
                  recipient \in Recipients, balance \in Balances :
                 ValidPullCall(g, Requester(gacha[g].pull_count), mint) =>
                    pull_error(g, Requester(gacha[g].pull_count), mint, ra, recipient, balance)
                      = IF gacha[g].is_paused THEN "GachaPaused" ELSE "GachaNotFinalized"
            /\ \A caller \in Signers, k \in PlayerKeys, ra \in RandAccounts :
                 settle_error(g, caller, k, ra) # "Ok"

\* a Building pool with a key and a registered mint, not paused, called with
\* current randomness, the configured recipient and the price in hand
BuildingIsClosed_Witness ==
    \E g \in Pools, mint \in Mints, ra \in RandAccounts :
        /\ ~gacha[g].is_finalized
        /\ ~gacha[g].is_paused
        /\ Len(gacha[g].encrypted_keys) > 0
        /\ Registered(g, mint)
        /\ configs[<<g, mint>>].exists
        /\ randomness_current(rand[ra].seed_slot)
        /\ pull_error(g, Requester(gacha[g].pull_count), mint, ra,
                      configs[<<g, mint>>].admin_recipient_account,
                      configs[<<g, mint>>].price) = "GachaNotFinalized"

\* C40: a successful add_key reports in KeyAdded the number of keys the
\* pool holds after the append
KeyAddedReportsCount ==
    \A g \in Pools, caller \in Signers :
        \A key \in KeyInputs(Len(gacha[g].encrypted_keys)) :
            add_key_error(g, caller, key) = "Ok"
            => key_added_total_keys(g) = Len(gacha[g].encrypted_keys) + 1

====
